---- MODULE Spec2Model ----
(***************************************************************************)
(* The job scheduler of internal/server/singleprocess/state/job.go:        *)
(* persisted jobs (bolt bucket "jobs"), the in-memory index (memdb table   *)
(* "jobs"), the per-job state timers, the blocked-scope tracker and the    *)
(* blocking JobAssignForRunner.                                            *)
(*                                                                         *)
(* Every verb other than JobAssignForRunner runs inside one memdb write    *)
(* transaction, so it is one atomic action.  JobAssignForRunner is three   *)
(* steps: candidate selection in a read transaction, the wait on the watch *)
(* set, and the commit phase in a write transaction.                       *)
(***************************************************************************)
EXTENDS Integers, Sequences, FiniteSets, TLC

\* Number of job ids the clients create.
MaxJobs == 2

JobIds == 1..MaxJobs

\* Number of fired timers whose callback has not run yet.
MaxCallbacks == 1

\* A stored id is created again only while fewer than MaxCreates calls of
\* JobCreate have succeeded.
MaxCreates == 2

\* pb.Job_State, with the integer values the memdb IntFieldIndex orders by.
States == {"QUEUED", "WAITING", "RUNNING", "ERROR", "SUCCESS"}

StateNum(s) ==
  CASE s = "QUEUED" -> 1
    [] s = "WAITING" -> 2
    [] s = "RUNNING" -> 3
    [] s = "ERROR" -> 4
    [] s = "SUCCESS" -> 5

\* (Application, Workspace) pairs.
Scopes == {"s1", "s2"}

\* Runner ids, with the order of the lowercase string index.
RunnerIds == {"r1", "r2"}

RunnerOrd(id) == IF id = "" THEN 0 ELSE IF id = "r1" THEN 1 ELSE 2

\* The pb.Runner values handed to JobAssignForRunner.
Runners ==
  { [Id |-> "r1", ByIdOnly |-> TRUE], [Id |-> "r2", ByIdOnly |-> FALSE] }

\* pb.Ref_Runner targets of the jobs clients create: Any, or the id of
\* runner r2.  No job targets r1, whose scan of the target-id index starts
\* before the entries of r2.
Targets == {"any", "r2"}

\* Concurrent callers of JobAssignForRunner.
Procs == {"p1", "p2"}

NoJob == 0

\* The runner of a caller that is not inside JobAssignForRunner.
NoRunner == [Id |-> "", ByIdOnly |-> FALSE]

NilTimer == [kind |-> "nil", armed |-> FALSE]

\* Status returned by a verb: the grpc code, with the verb its message
\* names for a FailedPrecondition.
Ok == "OK"

Status(code, id) == code

VARIABLES
  db,        \* bolt bucket "jobs": job id -> persisted pb.Job
  idx,       \* memdb table "jobs": job id -> jobIndex
  assigned,  \* blocked-scope tracker: scope -> job id or NoJob
  callbacks, \* timer callbacks no jobIndex.StateTimer can stop any more
  clock,     \* time.Now(), read by JobCreate for QueueTime
  pc,        \* position of each JobAssignForRunner caller
  runner,    \* the pb.Runner of each caller
  cands,     \* the caller's sorted candidates
  ws,        \* the caller's watch set (scopes whose tracker entry is watched)
  lastErr    \* status of the verb that ran last

vars == <<db, idx, assigned, callbacks, clock, pc, runner, cands, ws, lastErr>>

Init ==
  /\ db = <<>>
  /\ idx = <<>>
  /\ assigned = [s \in Scopes |-> NoJob]
  /\ callbacks = {}
  /\ clock = 0
  /\ pc = [p \in Procs |-> "idle"]
  /\ runner = [p \in Procs |-> NoRunner]
  /\ cands = [p \in Procs |-> <<>>]
  /\ ws = [p \in Procs |-> {}]
  /\ lastErr = Ok


Has(id) == id \in DOMAIN idx

\* The early return of jobCancel without the case of pb.Job_SUCCESS.
TerminalErrorOnly(s) == s = "ERROR"

Terminal(s) == s \in {"SUCCESS", "ERROR"}

(***************************************************************************)
(* Blocked-scope tracker (job_assigned.go).  The entry of a scope lives in *)
(* the memdb transaction of the caller: it is written with the index and   *)
(* dropped when that transaction aborts.                                   *)
(***************************************************************************)
jobAssignedSet(asg, ix, id, flag) ==
  [asg EXCEPT ![ix[id].Scope] = IF flag THEN id ELSE NoJob]

jobIsBlocked(asg, ix, id) ==
  /\ asg[ix[id].Scope] # NoJob
  /\ asg[ix[id].Scope] # id

\* An abort that leaves the tracker as the transaction wrote it.
TxnAbortKeeps(tentative, committed) == tentative

\* defer txn.Abort() of a verb that returns an error: the transaction's
\* tentative tracker is dropped and the committed one stays.
TxnAbort(tentative, committed) == committed

\* A watch set without the channel of the QUEUED prefix of the state index.
WokenByScopeOnly(p, queued, fired) ==
  /\ pc[p] = "blocked"
  /\ ws[p] \cap fired # {}

\* A watch set without the channels of the tracker entries.
WokenByQueueOnly(p, queued, fired) ==
  /\ pc[p] = "blocked"
  /\ queued

\* memdb commit closes the watch channels of what the transaction wrote:
\* the QUEUED prefix of the state index (queued) and the tracker entries of
\* the scopes in fired.  A caller blocked in ws.WatchCtx wakes.
Woken(p, queued, fired) ==
  /\ pc[p] = "blocked"
  /\ (queued \/ ws[p] \cap fired # {})

Notify(queued, fired) ==
  /\ pc' = [p \in Procs |-> IF Woken(p, queued, fired) THEN "retry" ELSE pc[p]]
  /\ ws' = [p \in Procs |-> IF Woken(p, queued, fired) THEN {} ELSE ws[p]]

\* The callback a state timer runs when it fires.
TimerCallback(kind, id) ==
  IF kind = "waiting" THEN <<"JobAck", id>> ELSE <<"JobCancel", id>>

\* time.AfterFunc for the state a rebuilt or created record is in.
StateTimerFor(state) ==
  IF state = "WAITING" THEN [kind |-> "waiting", armed |-> TRUE]
  ELSE IF state = "RUNNING" THEN [kind |-> "heartbeat", armed |-> TRUE]
  ELSE NilTimer

\* jobIndexSet: the index record of a persisted job.
jobIndexSet(jobpb) ==
  [ State |-> jobpb.State,
    Scope |-> jobpb.Scope,
    QueueTime |-> jobpb.QueueTime,
    TargetAny |-> (jobpb.TargetRunner = "any"),
    TargetRunnerId |-> IF jobpb.TargetRunner = "any" THEN "" ELSE jobpb.TargetRunner,
    StateTimer |-> StateTimerFor(jobpb.State) ]

(***************************************************************************)
(* JobCreate / jobCreate.  Ids are opaque and unique; the model draws them *)
(* in increasing order, and calls the scope of the first job s1.           *)
(* time.Now() is strictly later at every create.  The jobs carry no        *)
(* ExpireTime: JobExpire is called by clients only.                        *)
(***************************************************************************)
\* Inputs of JobCreate that jobIndexSet refuses: TargetRunner is nil, or
\* its Target is of no known variant.
BadTargets == {"unset", "unknown"}

\* jobCreate that keeps the State the input carries.
CreateStateKept(input) == input

\* jobCreate: jobpb.State = pb.Job_QUEUED, whatever State the input carries.
CreateState(input) == "QUEUED"

JobCreate(id, target, scope) ==
  /\ id = Cardinality(DOMAIN db) + 1
  /\ id \in JobIds
  /\ id = 1 => scope = "s1"
  /\ \E input \in States :
     LET jobpb == [ State |-> CreateState(input),
                    QueueTime |-> clock + 1,
                    Scope |-> scope,
                    TargetRunner |-> target,
                    AssignTime |-> FALSE,
                    AckTime |-> FALSE,
                    CompleteTime |-> FALSE,
                    CancelTime |-> FALSE,
                    Error |-> "none" ]
     IN IF target \in BadTargets
        THEN \* jobIndexSet fails: bolt rolls back, the memdb txn aborts
             /\ lastErr' = Status("InvalidTarget", id)
             /\ UNCHANGED <<db, idx, assigned, callbacks, clock, pc, runner, cands, ws>>
        ELSE /\ db' = db @@ (id :> jobpb)
             /\ idx' = idx @@ (id :> jobIndexSet(jobpb))
             /\ clock' = clock + 1
             /\ Notify(TRUE, {})
             /\ lastErr' = Ok
             /\ UNCHANGED <<assigned, callbacks, runner, cands>>

(***************************************************************************)
(* Candidate selection.  LowerBound iterates the index from the bound in   *)
(* key order; the candidate is the first entry that passes the filters.    *)
(***************************************************************************)
\* Key order of the queue-time index (State, QueueTime).
QueueTimeLess(ix, a, b) ==
  \/ StateNum(ix[a].State) < StateNum(ix[b].State)
  \/ /\ ix[a].State = ix[b].State
     /\ ix[a].QueueTime < ix[b].QueueTime

\* Key order of the target-id index (State, TargetRunnerId, QueueTime).
TargetIdLess(ix, a, b) ==
  \/ StateNum(ix[a].State) < StateNum(ix[b].State)
  \/ /\ ix[a].State = ix[b].State
     /\ RunnerOrd(ix[a].TargetRunnerId) < RunnerOrd(ix[b].TargetRunnerId)
  \/ /\ ix[a].State = ix[b].State
     /\ ix[a].TargetRunnerId = ix[b].TargetRunnerId
     /\ ix[a].QueueTime < ix[b].QueueTime

\* jobCandidateById without the comparison of job.TargetRunnerId with r.Id.
ByIdMatchesAnyTarget(ix, r) ==
  { id \in DOMAIN ix :
      /\ ix[id].TargetRunnerId # ""
      /\ \/ StateNum(ix[id].State) > StateNum("QUEUED")
         \/ RunnerOrd(ix[id].TargetRunnerId) >= RunnerOrd(r.Id)
      /\ ix[id].State = "QUEUED" }

\* Entries of the target-id index at or after (QUEUED, r.Id, epoch) that pass
\* the state and target filter of jobCandidateById.
ByIdMatches(ix, r) ==
  { id \in DOMAIN ix :
      /\ ix[id].TargetRunnerId # ""
      /\ \/ StateNum(ix[id].State) > StateNum("QUEUED")
         \/ RunnerOrd(ix[id].TargetRunnerId) >= RunnerOrd(r.Id)
      /\ ix[id].State = "QUEUED"
      /\ ix[id].TargetRunnerId = r.Id }

\* Entries of the queue-time index at or after (QUEUED, epoch) that pass the
\* state and target filter of jobCandidateAny.
AnyMatches(ix) ==
  { id \in DOMAIN ix :
      /\ StateNum(ix[id].State) >= StateNum("QUEUED")
      /\ ix[id].State = "QUEUED"
      /\ ix[id].TargetAny }

jobCandidateById(asg, ix, r) ==
  LET ok == { id \in ByIdMatches(ix, r) : ~jobIsBlocked(asg, ix, id) }
  IN IF ok = {} THEN NoJob
     ELSE CHOOSE id \in ok : \A k \in ok : ~TargetIdLess(ix, k, id)

jobCandidateAny(asg, ix, r) ==
  LET ok == { id \in AnyMatches(ix) : ~jobIsBlocked(asg, ix, id) }
  IN IF ok = {} THEN NoJob
     ELSE CHOOSE id \in ok : \A k \in ok : ~QueueTimeLess(ix, k, id)

\* The candidates in the order of candidateQuery, without the sort.
CandidatesUnsorted(asg, ix, r) ==
  LET byId == jobCandidateById(asg, ix, r)
      any == IF r.ByIdOnly THEN NoJob ELSE jobCandidateAny(asg, ix, r)
  IN (IF byId = NoJob THEN <<>> ELSE <<byId>>)
     \o (IF any = NoJob THEN <<>> ELSE <<any>>)

\* candidateQuery and the loop that builds `candidates`, then sort.Slice by
\* QueueTime.
Candidates(asg, ix, r) ==
  LET byId == jobCandidateById(asg, ix, r)
      any == IF r.ByIdOnly THEN NoJob ELSE jobCandidateAny(asg, ix, r)
      found == (IF byId = NoJob THEN <<>> ELSE <<byId>>)
               \o (IF any = NoJob THEN <<>> ELSE <<any>>)
  IN IF Len(found) = 2 /\ ix[found[2]].QueueTime < ix[found[1]].QueueTime
     THEN <<found[2], found[1]>>
     ELSE found

\* The watch channels jobIsBlocked added for the entries the scans visited.
WatchScopes(ix, r) ==
  { ix[id].Scope : id \in ByIdMatches(ix, r) \cup
                          (IF r.ByIdOnly THEN {} ELSE AnyMatches(ix)) }

\* One pass from RETRY_ASSIGN to the wait or to the write lock.
Select(p, r) ==
  LET c == Candidates(assigned, idx, r)
  IN /\ runner' = [runner EXCEPT ![p] = r]
     /\ cands' = [cands EXCEPT ![p] = c]
     /\ IF c = <<>>
        THEN /\ pc' = [pc EXCEPT ![p] = "blocked"]
             /\ ws' = [ws EXCEPT ![p] = WatchScopes(idx, r)]
        ELSE /\ pc' = [pc EXCEPT ![p] = "commit"]
             /\ ws' = [ws EXCEPT ![p] = {}]
     /\ UNCHANGED <<db, idx, assigned, callbacks, clock, lastErr>>

\* A call of JobAssignForRunner(ctx, r) and its first selection.  Callers
\* are interchangeable: the ByIdOnly runner calls as p2.
AssignCall(p, r) ==
  /\ pc[p] = "idle"
  /\ r.ByIdOnly => p = "p2"
  /\ Select(p, r)

\* goto RETRY_ASSIGN, after the watch set fired or after a commit phase
\* without a valid candidate.
AssignRetry(p) ==
  /\ pc[p] = "retry"
  /\ Select(p, runner[p])

\* ctx is done while the caller waits: ctx.Err() is returned.
AssignCtxDone(p) ==
  /\ pc[p] = "blocked"
  /\ pc' = [pc EXCEPT ![p] = "idle"]
  /\ ws' = [ws EXCEPT ![p] = {}]
  /\ runner' = [runner EXCEPT ![p] = NoRunner]
  /\ UNCHANGED <<db, idx, assigned, callbacks, clock, cands, lastErr>>

\* The recheck without jobIsBlocked.
StillValidNoBlocked(asg, ix, id) == ix[id].State = "QUEUED"

\* The recheck without the comparison of job.State with pb.Job_QUEUED.
StillValidNoState(asg, ix, id) == ~jobIsBlocked(asg, ix, id)

\* The recheck of a candidate under the write transaction.
StillValid(asg, ix, id) ==
  /\ ix[id].State = "QUEUED"
  /\ ~jobIsBlocked(asg, ix, id)

\* The candidates the loop of the commit phase does not skip.
ValidCandidates(p) ==
  SelectSeq(cands[p], LAMBDA id : StillValid(assigned, idx, id))

\* The commit phase: the first candidate that is still valid is assigned.
AssignCommit(p) ==
  /\ pc[p] = "commit"
  /\ LET valid == ValidCandidates(p)
     IN IF valid = <<>>
        THEN /\ pc' = [pc EXCEPT ![p] = "retry"]
             /\ cands' = [cands EXCEPT ![p] = <<>>]
             /\ UNCHANGED <<db, idx, assigned, callbacks, clock, runner, ws, lastErr>>
        ELSE LET id == Head(valid)
                 old == idx[id].StateTimer
             IN /\ idx' = [idx EXCEPT ![id].State = "WAITING",
                                      ![id].StateTimer = StateTimerFor("WAITING")]
                /\ db' = [db EXCEPT ![id].State = "WAITING",
                                    ![id].AssignTime = TRUE]
                \* the previous StateTimer is overwritten without Stop()
                /\ callbacks' = callbacks \cup
                     (IF old.armed THEN {TimerCallback(old.kind, id)} ELSE {})
                /\ assigned' = jobAssignedSet(assigned, idx, id, TRUE)
                /\ pc' = [q \in Procs |->
                            IF q = p THEN "idle"
                            ELSE IF Woken(q, FALSE, {idx[id].Scope}) THEN "retry"
                            ELSE pc[q]]
                /\ ws' = [q \in Procs |->
                            IF Woken(q, FALSE, {idx[id].Scope}) THEN {} ELSE ws[q]]
                /\ cands' = [cands EXCEPT ![p] = <<>>]
                /\ runner' = [runner EXCEPT ![p] = NoRunner]
                /\ UNCHANGED <<clock, lastErr>>

(***************************************************************************)
(* The lifecycle verbs.  Each takes cbs, the pending timer callbacks it    *)
(* leaves behind: all of them when a client calls the verb, all but the    *)
(* running one when a timer callback calls it.                             *)
(***************************************************************************)
\* A callback whose job is SUCCESS or ERROR has no effect when it runs
\* (JobAck fails its state check, jobCancel returns early), and a terminal
\* job stays terminal: the model runs such a callback at once.
Pending(cbs, ix) == { cb \in cbs : ~Terminal(ix[cb[2]].State) }

\* A verb that returns an error: defer txn.Abort() drops what it wrote.
Fail(status, cbs) ==
  /\ lastErr' = status
  /\ callbacks' = cbs
  /\ assigned' = TxnAbort(assigned, assigned)
  /\ UNCHANGED <<db, idx, clock, pc, runner, cands, ws>>

\* JobAck without its state check.
AckAllowedAlways(state) == state \in States

\* The state check of JobAck: job.State != pb.Job_WAITING is an error.
AckAllowed(state) == state = "WAITING"

\* JobComplete with the state check of JobAck.
CompleteAllowedWaiting(state) == state \in {"WAITING", "RUNNING"}

\* The state check of JobComplete: job.State != pb.Job_RUNNING is an error.
CompleteAllowed(state) == state = "RUNNING"

\* JobAck(id, ack)
JobAck(id, ack, cbs) ==
  IF ~Has(id) THEN Fail(Status("NotFound", id), cbs)
  ELSE IF ~AckAllowed(idx[id].State)
  THEN Fail(Status("FailedPrecondition:acked", id), cbs)
  ELSE /\ db' = IF ack
                THEN [db EXCEPT ![id].State = "RUNNING", ![id].AckTime = TRUE]
                ELSE [db EXCEPT ![id].State = "QUEUED", ![id].AssignTime = FALSE]
       \* the old timer is stopped; a heartbeat timer is started for ack and
       \* for nack alike
       /\ idx' = [idx EXCEPT ![id].State = IF ack THEN "RUNNING" ELSE "QUEUED",
                             ![id].StateTimer = [kind |-> "heartbeat", armed |-> TRUE]]
       /\ assigned' = IF ack THEN assigned
                      ELSE jobAssignedSet(assigned, idx, id, FALSE)
       /\ callbacks' = cbs
       /\ IF ack THEN Notify(FALSE, {}) ELSE Notify(TRUE, {idx[id].Scope})
       /\ lastErr' = Ok
       /\ UNCHANGED <<clock, runner, cands>>

\* JobComplete(id, result, cerr); failed is cerr != nil.
JobComplete(id, failed, cbs) ==
  IF ~Has(id) THEN Fail(Status("NotFound", id), cbs)
  ELSE LET txnAssigned == jobAssignedSet(assigned, idx, id, FALSE)
       IN IF ~CompleteAllowed(idx[id].State)
          THEN /\ lastErr' = Status("FailedPrecondition:completed", id)
               /\ callbacks' = cbs
               /\ assigned' = TxnAbort(txnAssigned, assigned)
               /\ UNCHANGED <<db, idx, clock, pc, runner, cands, ws>>
          ELSE /\ db' = [db EXCEPT ![id].State = IF failed THEN "ERROR" ELSE "SUCCESS",
                                   ![id].CompleteTime = TRUE,
                                   ![id].Error = IF failed THEN "failed" ELSE @]
               \* job.End() stops the timer
               /\ idx' = [idx EXCEPT ![id].State = IF failed THEN "ERROR" ELSE "SUCCESS",
                                     ![id].StateTimer = NilTimer]
               /\ assigned' = txnAssigned
               /\ callbacks' = Pending(cbs, idx')
               /\ Notify(FALSE, {idx[id].Scope})
               /\ lastErr' = Ok
               /\ UNCHANGED <<clock, runner, cands>>

\* jobCancel that moves every unfinished job to ERROR, forced or not.
jobCancelIndexForced(rec, force) ==
  IF rec.State = "QUEUED" THEN [rec EXCEPT !.State = "ERROR"]
  ELSE IF rec.State \in {"WAITING", "RUNNING"}
  THEN [rec EXCEPT !.State = "ERROR", !.StateTimer = NilTimer]
  ELSE rec

\* jobCancel on the index record: the switch on job.State.
jobCancelIndex(rec, force) ==
  IF rec.State = "QUEUED" THEN [rec EXCEPT !.State = "ERROR"]
  ELSE IF rec.State \in {"WAITING", "RUNNING"} /\ force
  THEN [rec EXCEPT !.State = "ERROR", !.StateTimer = NilTimer]
  ELSE rec

\* jobCancel on the persisted job: the jobReadAndUpdate closure.
jobCancelPersist(jobpb, state) ==
  [jobpb EXCEPT !.State = state,
                !.CancelTime = TRUE,
                !.Error = IF state = "ERROR" THEN "canceled" ELSE @]

\* jobCancel(txn, job, force)
jobCancel(id, force) ==
  IF Terminal(idx[id].State)
  THEN UNCHANGED <<db, idx>>
  ELSE LET rec == jobCancelIndex(idx[id], force)
       IN /\ idx' = [idx EXCEPT ![id] = rec]
          /\ db' = [db EXCEPT ![id] = jobCancelPersist(db[id], rec.State)]

\* JobCancel(id, force)
JobCancel(id, force, cbs) ==
  IF ~Has(id) THEN Fail(Status("NotFound", id), cbs)
  ELSE /\ jobCancel(id, force)
       /\ callbacks' = Pending(cbs, idx')
       /\ lastErr' = Ok
       /\ UNCHANGED <<assigned, clock, pc, runner, cands, ws>>

\* jobHeartbeat without the check of job.State.
HeartbeatResetsAnyTimer(rec) == rec.StateTimer.kind # "nil"

\* jobHeartbeat: the job whose StateTimer it resets.
HeartbeatResets(rec) == rec.State = "RUNNING" /\ rec.StateTimer.kind # "nil"

\* JobHeartbeat(id) / jobHeartbeat
JobHeartbeat(id, cbs) ==
  IF ~Has(id) THEN Fail(Status("NotFound", id), cbs)
  ELSE /\ idx' = IF HeartbeatResets(idx[id])
                 THEN [idx EXCEPT ![id].StateTimer.armed = TRUE]
                 ELSE idx
       /\ callbacks' = cbs
       /\ lastErr' = Ok
       /\ UNCHANGED <<db, assigned, clock, pc, runner, cands, ws>>

\* JobExpire that cancels whatever has not finished.
ExpireCancelsUnfinished(state) == state \in {"QUEUED", "WAITING", "RUNNING"}

\* The switch of JobExpire: the states in which it calls jobCancel.
ExpireCancels(state) == state \in {"QUEUED", "WAITING"}

\* JobExpire(id)
JobExpire(id, cbs) ==
  IF ~Has(id) THEN Fail(Status("NotFound", id), cbs)
  ELSE /\ IF ExpireCancels(idx[id].State)
          THEN jobCancel(id, FALSE)
          ELSE UNCHANGED <<db, idx>>
       /\ callbacks' = Pending(cbs, idx')
       /\ lastErr' = Ok
       /\ UNCHANGED <<assigned, clock, pc, runner, cands, ws>>

(***************************************************************************)
(* Timers.  A state timer that fires starts its callback in a goroutine of *)
(* its own; the callback then waits for the write transaction like any     *)
(* other caller, and Stop() on a fired timer does not take it back.        *)
(***************************************************************************)
TimerFire(id) ==
  /\ Has(id)
  /\ idx[id].StateTimer.armed
  /\ Cardinality(callbacks) < MaxCallbacks
  /\ idx' = [idx EXCEPT ![id].StateTimer.armed = FALSE]
  /\ callbacks' = Pending(callbacks \cup {TimerCallback(idx[id].StateTimer.kind, id)}, idx)
  /\ UNCHANGED <<db, assigned, clock, pc, runner, cands, ws, lastErr>>

\* func() { s.JobAck(job.Id, false) }
WaitingTimeout(id) ==
  /\ <<"JobAck", id>> \in callbacks
  /\ JobAck(id, FALSE, callbacks \ {<<"JobAck", id>>})

\* func() { s.JobCancel(job.Id, true) }
HeartbeatTimeout(id) ==
  /\ <<"JobCancel", id>> \in callbacks
  /\ JobCancel(id, TRUE, callbacks \ {<<"JobCancel", id>>})

(***************************************************************************)
(* Restart: the process ends (timers and callers with it) and jobIndexInit *)
(* rebuilds the index and the tracker from the bucket, in key order.       *)
(***************************************************************************)
RECURSIVE jobIndexInit(_, _, _)
jobIndexInit(bucket, id, asg) ==
  IF id > Cardinality(DOMAIN bucket) THEN asg
  ELSE jobIndexInit(bucket, id + 1,
         IF bucket[id].State \in {"RUNNING", "WAITING"}
         THEN [asg EXCEPT ![bucket[id].Scope] = id]
         ELSE asg)

Restart ==
  /\ idx' = [id \in DOMAIN db |-> jobIndexSet(db[id])]
  /\ assigned' = jobIndexInit(db, 1, [s \in Scopes |-> NoJob])
  /\ callbacks' = {}
  /\ pc' = [p \in Procs |-> "idle"]
  /\ cands' = [p \in Procs |-> <<>>]
  /\ ws' = [p \in Procs |-> {}]
  /\ runner' = [p \in Procs |-> NoRunner]
  /\ lastErr' = Ok
  /\ UNCHANGED <<db, clock>>

Next ==
  \/ \E id \in JobIds, t \in Targets \cup BadTargets, s \in Scopes :
       JobCreate(id, t, s)
  \/ \E p \in Procs, r \in Runners : AssignCall(p, r)
  \/ \E p \in Procs : AssignRetry(p)
  \/ \E p \in Procs : AssignCtxDone(p)
  \/ \E p \in Procs : AssignCommit(p)
  \/ \E id \in JobIds, ack \in BOOLEAN : JobAck(id, ack, callbacks)
  \/ \E id \in JobIds, failed \in BOOLEAN : JobComplete(id, failed, callbacks)
  \/ \E id \in JobIds, force \in BOOLEAN : JobCancel(id, force, callbacks)
  \/ \E id \in JobIds : JobHeartbeat(id, callbacks)
  \/ \E id \in JobIds : JobExpire(id, callbacks)
  \/ \E id \in JobIds : TimerFire(id)
  \/ \E id \in JobIds : WaitingTimeout(id)
  \/ \E id \in JobIds : HeartbeatTimeout(id)
  \/ Restart

Spec == Init /\ [][Next]_vars

(***************************************************************************)
(* Runs in which the callers of JobAssignForRunner keep waiting and the    *)
(* clients follow the protocol: no ctx is cancelled, the process is not    *)
(* restarted, a runner acks or nacks a job that is WAITING and completes a *)
(* job that is RUNNING, and jobs leave the queue early only by a timer.    *)
(* The timer callbacks run in whatever state their job is in.              *)
(***************************************************************************)
LiveNext ==
  \/ \E id \in JobIds, t \in Targets, s \in Scopes : JobCreate(id, t, s)
  \/ \E p \in Procs, r \in Runners : AssignCall(p, r)
  \/ \E p \in Procs : AssignRetry(p)
  \/ \E p \in Procs : AssignCommit(p)
  \/ \E id \in DOMAIN idx, ack \in BOOLEAN :
       idx[id].State = "WAITING" /\ JobAck(id, ack, callbacks)
  \/ \E id \in DOMAIN idx, failed \in BOOLEAN :
       idx[id].State = "RUNNING" /\ JobComplete(id, failed, callbacks)
  \/ \E id \in JobIds : TimerFire(id)
  \/ \E id \in JobIds : WaitingTimeout(id)
  \/ \E id \in JobIds : HeartbeatTimeout(id)

\* The commit phase of caller p, when it has a valid candidate to return.
AssignReturn(p) ==
  /\ pc[p] = "commit"
  /\ SelectSeq(cands[p], LAMBDA id : StillValid(assigned, idx, id)) # <<>>
  /\ AssignCommit(p)

\* A caller is a goroutine: once woken it selects again, and once it waits
\* for the write lock it gets it (every verb gives the lock back).  A caller
\* that is at the write lock with a valid candidate again and again does not
\* lose the race for the lock every time.
Scheduling ==
  \A p \in Procs :
    /\ WF_vars(AssignRetry(p))
    /\ WF_vars(AssignCommit(p))
    /\ SF_vars(AssignReturn(p))

LiveSpec == Init /\ [][LiveNext]_vars /\ Scheduling

(***************************************************************************)
(* Failure of the persistent store.  jobReadAndUpdate runs the read of the *)
(* job, the closure of the verb and dbPut in one bolt Update; when the     *)
(* Update returns an error the persisted job is as before, the verb        *)
(* returns the error and its deferred txn.Abort() drops what the memdb     *)
(* transaction wrote.  What the verb assigned to the fields of the         *)
(* *jobIndex it got from txn.First is not part of the transaction and      *)
(* stays.  The behaviours are followed up to the first such failure.       *)
(***************************************************************************)
\* The error of the bolt Update that jobReadAndUpdate returns.
StoreError == "StoreError"

\* JobAck whose jobReadAndUpdate fails; ran: the failure is in dbPut or in
\* the commit of bolt, after the closure set job.State.
JobAckStoreFails(id, ack, ran) ==
  /\ Has(id)
  /\ AckAllowed(idx[id].State)
  /\ idx' = IF ran
            THEN [idx EXCEPT ![id].State = IF ack THEN "RUNNING" ELSE "QUEUED"]
            ELSE idx
  /\ lastErr' = StoreError
  /\ UNCHANGED <<db, assigned, callbacks, clock, pc, runner, cands, ws>>

\* JobComplete whose jobReadAndUpdate fails.
JobCompleteStoreFails(id, failed, ran) ==
  /\ Has(id)
  /\ CompleteAllowed(idx[id].State)
  /\ idx' = IF ran
            THEN [idx EXCEPT ![id].State = IF failed THEN "ERROR" ELSE "SUCCESS"]
            ELSE idx
  /\ assigned' = TxnAbort(jobAssignedSet(assigned, idx, id, FALSE), assigned)
  /\ lastErr' = StoreError
  /\ UNCHANGED <<db, callbacks, clock, pc, runner, cands, ws>>

\* JobCancel(id, force), or JobExpire(id) with force = FALSE on a QUEUED or
\* WAITING job, whose jobCancel fails in jobReadAndUpdate: the switch on
\* job.State ran before.
JobCancelStoreFails(id, force) ==
  /\ Has(id)
  /\ ~Terminal(idx[id].State)
  /\ idx' = [idx EXCEPT ![id] = jobCancelIndex(idx[id], force)]
  /\ lastErr' = StoreError
  /\ UNCHANGED <<db, assigned, callbacks, clock, pc, runner, cands, ws>>

\* The commit phase of JobAssignForRunner whose jobReadAndUpdate fails:
\* job.State = pb.Job_WAITING was assigned before, and the caller returns
\* the error.  The deferred txn.Abort() is the one of the read transaction
\* the function began with, so the write transaction of the commit phase is
\* neither committed nor aborted: the caller is left at "open".
AssignStoreFails(p) ==
  /\ pc[p] = "commit"
  /\ ValidCandidates(p) # <<>>
  /\ idx' = [idx EXCEPT ![Head(ValidCandidates(p))].State = "WAITING"]
  /\ pc' = [pc EXCEPT ![p] = "open"]
  /\ cands' = [cands EXCEPT ![p] = <<>>]
  /\ runner' = [runner EXCEPT ![p] = NoRunner]
  /\ lastErr' = StoreError
  /\ UNCHANGED <<db, assigned, callbacks, clock, ws>>

\* No verb has met a failure of the store so far.
StoreUp == lastErr # StoreError

FailNext ==
  \/ StoreUp /\ LiveNext
  \/ \E id \in JobIds, ack \in BOOLEAN, ran \in BOOLEAN :
       StoreUp /\ JobAckStoreFails(id, ack, ran)
  \/ \E id \in JobIds, failed \in BOOLEAN, ran \in BOOLEAN :
       StoreUp /\ JobCompleteStoreFails(id, failed, ran)
  \/ \E id \in JobIds, force \in BOOLEAN :
       StoreUp /\ JobCancelStoreFails(id, force)
  \/ \E p \in Procs : StoreUp /\ AssignStoreFails(p)

FailSpec == Init /\ [][FailNext]_vars

(***************************************************************************)
(* The write lock of memdb.  s.inmem.Txn(true) takes it and Commit or      *)
(* Abort of that transaction gives it back; every verb does so before it   *)
(* returns, which is why a verb is one step, except the commit phase of    *)
(* JobAssignForRunner on its error returns.  Read transactions take no     *)
(* lock, and a timer fires without one.                                    *)
(***************************************************************************)
\* Some caller returned with the write transaction of its commit phase open.
WriteLocked == \E p \in Procs : pc[p] = "open"

LeakNext ==
  \/ \E p \in Procs, r \in Runners : AssignCall(p, r)
  \/ \E p \in Procs : AssignRetry(p)
  \/ \E id \in JobIds : TimerFire(id)
  \/ \E id \in JobIds, t \in Targets, s \in Scopes :
       ~WriteLocked /\ JobCreate(id, t, s)
  \/ \E p \in Procs : ~WriteLocked /\ AssignCommit(p)
  \/ \E p \in Procs : ~WriteLocked /\ AssignStoreFails(p)
  \/ \E id \in DOMAIN idx, ack \in BOOLEAN :
       ~WriteLocked /\ idx[id].State = "WAITING" /\ JobAck(id, ack, callbacks)
  \/ \E id \in DOMAIN idx, failed \in BOOLEAN :
       /\ ~WriteLocked
       /\ idx[id].State = "RUNNING"
       /\ JobComplete(id, failed, callbacks)
  \/ \E id \in JobIds : ~WriteLocked /\ WaitingTimeout(id)
  \/ \E id \in JobIds : ~WriteLocked /\ HeartbeatTimeout(id)

LeakSpec == Init /\ [][LeakNext]_vars

(***************************************************************************)
(* JobCreate of an id that is stored already.  jobCreate does not look the *)
(* id up: dbPut overwrites the persisted job and the txn.Insert of         *)
(* jobIndexSet replaces the index record by a new one.  The StateTimer of  *)
(* the record it replaces is not stopped, and the scope tracker is not     *)
(* written.                                                                *)
(***************************************************************************)
JobCreateStored(id, target, scope) ==
  /\ Has(id)
  /\ clock < MaxCreates
  /\ \E input \in States :
     LET jobpb == [ State |-> CreateState(input),
                    QueueTime |-> clock + 1,
                    Scope |-> scope,
                    TargetRunner |-> target,
                    AssignTime |-> FALSE,
                    AckTime |-> FALSE,
                    CompleteTime |-> FALSE,
                    CancelTime |-> FALSE,
                    Error |-> "none" ]
         old == idx[id].StateTimer
     IN /\ db' = [db EXCEPT ![id] = jobpb]
        /\ idx' = [idx EXCEPT ![id] = jobIndexSet(jobpb)]
        /\ callbacks' = callbacks \cup
             (IF old.armed THEN {TimerCallback(old.kind, id)} ELSE {})
        /\ clock' = clock + 1
        /\ Notify(TRUE, {})
        /\ lastErr' = Ok
        /\ UNCHANGED <<assigned, runner, cands>>

StoredNext ==
  \/ LiveNext
  \/ \E id \in JobIds, t \in Targets, s \in Scopes : JobCreateStored(id, t, s)

StoredSpec == Init /\ [][StoredNext]_vars

(***************************************************************************)
(* Properties.                                                             *)
(***************************************************************************)
Active(id) == idx[id].State \in {"WAITING", "RUNNING"}

\* The target selector of job id admits runner r.
Admits(r, id) ==
  \/ idx[id].TargetRunnerId = r.Id
  \/ idx[id].TargetAny /\ ~r.ByIdOnly

\* The commit phase of caller p returns a job in this step.
Returns(p) == AssignCommit(p) /\ ValidCandidates(p) # <<>>

\* C1: in every reachable state at most one job of a scope is WAITING or
\* RUNNING.
ScopeExclusive ==
  \A a, b \in DOMAIN idx :
    (a # b /\ idx[a].Scope = idx[b].Scope) => ~(Active(a) /\ Active(b))

\* A caller at its commit phase holds a QUEUED candidate whose scope another
\* job has taken since the selection.
ScopeExclusiveWitness ==
  \E p \in Procs, a, b \in DOMAIN idx :
    /\ pc[p] = "commit"
    /\ \E i \in 1..Len(cands[p]) : cands[p][i] = b
    /\ idx[b].State = "QUEUED"
    /\ a # b /\ idx[a].Scope = idx[b].Scope /\ Active(a)

\* C2: a scope is marked assigned only to a job that is WAITING or RUNNING
\* (the scope is released on every exit from these states).
ScopeReleased ==
  \A s \in Scopes : assigned[s] # NoJob => Active(assigned[s])

\* C3: every change of a job's State is one of the allowed transitions; a
\* job in SUCCESS or ERROR never changes state.
AllowedTransitions ==
  { <<"QUEUED", "WAITING">>, <<"WAITING", "RUNNING">>, <<"WAITING", "QUEUED">>,
    <<"RUNNING", "SUCCESS">>, <<"RUNNING", "ERROR">>, <<"QUEUED", "ERROR">>,
    <<"WAITING", "ERROR">> }

LegalTransitions ==
  [][\A id \in DOMAIN idx :
       /\ idx'[id].State # idx[id].State =>
            <<idx[id].State, idx'[id].State>> \in AllowedTransitions
       /\ db'[id].State # db[id].State =>
            <<db[id].State, db'[id].State>> \in AllowedTransitions]_vars

\* The only job is terminal and the verb that ran last on it was refused.
LegalTransitionsWitness ==
  /\ DOMAIN idx = {1}
  /\ Terminal(idx[1].State)
  /\ lastErr \in {"FailedPrecondition:acked", "FailedPrecondition:completed"}

\* C4: a commit phase that returns a job returns one that is QUEUED and
\* moves it to WAITING, so a job is returned once per QUEUED period; a
\* candidate that is no longer QUEUED is skipped.
AssignedOnce ==
  [][\A p \in Procs :
       Returns(p) =>
         LET id == Head(ValidCandidates(p))
         IN /\ idx[id].State = "QUEUED"
            /\ idx'[id].State = "WAITING"
            /\ \A k \in DOMAIN idx \ {id} : idx'[k].State = idx[k].State]_vars

\* Two callers are at their commit phase with the same candidate.
AssignedOnceWitness ==
  \E p, q \in Procs :
    /\ p # q
    /\ pc[p] = "commit" /\ pc[q] = "commit"
    /\ cands[p] # <<>> /\ cands[p] = cands[q]

\* The contention resolved: a caller skipped its candidates and retries
\* while the job is WAITING.
AssignedOnceLoser ==
  \E p \in Procs, id \in DOMAIN idx :
    pc[p] = "retry" /\ idx[id].State = "WAITING"

\* C5 as claimed: when a commit phase returns job j, no other job that is
\* QUEUED, not blocked and admits the runner has a strictly earlier
\* QueueTime, whatever ran between the selection and the commit.
EarlierEligible(p, id) ==
  { k \in DOMAIN idx \ {id} :
      /\ idx[k].State = "QUEUED"
      /\ ~jobIsBlocked(assigned, idx, k)
      /\ Admits(runner[p], k)
      /\ idx[k].QueueTime < idx[id].QueueTime }

StrictFifo ==
  [][\A p \in Procs :
       Returns(p) => EarlierEligible(p, Head(ValidCandidates(p))) = {}]_vars

\* C5 amended: the same, for a commit phase whose candidates are still the
\* ones a selection would find.
SelectionCurrent(p) == Candidates(assigned, idx, runner[p]) = cands[p]

FifoAtSelection ==
  [][\A p \in Procs :
       (Returns(p) /\ SelectionCurrent(p)) =>
         EarlierEligible(p, Head(ValidCandidates(p))) = {}]_vars

\* A caller is at its commit phase with two current candidates.
FifoAtSelectionWitness ==
  \E p \in Procs :
    /\ pc[p] = "commit"
    /\ Len(cands[p]) = 2
    /\ SelectionCurrent(p)

\* C6: a commit phase only returns a job whose target admits the runner.
TargetAdmitsRunner ==
  [][\A p \in Procs :
       Returns(p) => Admits(runner[p], Head(ValidCandidates(p)))]_vars

\* A ByIdOnly runner waits although a TargetAny job is QUEUED and free, and
\* a job targeted at another runner id is QUEUED and free.
TargetAdmitsRunnerWitness ==
  \E p \in Procs, a, b \in DOMAIN idx :
    /\ pc[p] = "blocked" /\ runner[p].ByIdOnly
    /\ idx[a].State = "QUEUED" /\ idx[a].TargetAny
    /\ idx[b].State = "QUEUED" /\ idx[b].TargetRunnerId \notin {"", runner[p].Id}
    /\ ~jobIsBlocked(assigned, idx, a) /\ ~jobIsBlocked(assigned, idx, b)

\* C9: JobAck on a job that is not WAITING, called by a client or by the
\* waiting timer, returns FailedPrecondition and changes nothing.
AckRefused ==
  [][\A id \in DOMAIN idx :
       (/\ idx[id].State # "WAITING"
        /\ \/ \E ack \in BOOLEAN : JobAck(id, ack, callbacks)
           \/ WaitingTimeout(id))
       => /\ lastErr' = "FailedPrecondition:acked"
          /\ UNCHANGED <<db, idx, assigned, pc, ws>>]_vars

\* The only job was nacked and is QUEUED, and a further JobAck was refused.
AckRefusedWitness ==
  /\ DOMAIN idx = {1}
  /\ idx[1].State = "QUEUED"
  /\ idx[1].StateTimer.kind = "heartbeat"
  /\ lastErr = "FailedPrecondition:acked"

\* C10: JobComplete on a job that is not RUNNING returns FailedPrecondition
\* and changes nothing, the scope tracker included.
CompleteRefused ==
  [][\A id \in DOMAIN idx, failed \in BOOLEAN :
       (idx[id].State # "RUNNING" /\ JobComplete(id, failed, callbacks))
       => /\ lastErr' = "FailedPrecondition:completed"
          /\ UNCHANGED <<db, idx, assigned, callbacks, pc, ws>>]_vars

\* JobComplete was refused for the QUEUED job 2 while job 1 of the same scope
\* is RUNNING and holds the scope.
CompleteRefusedWitness ==
  /\ DOMAIN idx = {1, 2}
  /\ idx[1].State = "RUNNING" /\ idx[2].State = "QUEUED"
  /\ idx[1].Scope = idx[2].Scope
  /\ assigned[idx[1].Scope] = 1
  /\ lastErr = "FailedPrecondition:completed"

\* A job that is QUEUED, whose scope is free and whose target admits the
\* runner of caller p.
Eligible(p, id) ==
  /\ idx[id].State = "QUEUED"
  /\ ~jobIsBlocked(assigned, idx, id)
  /\ Admits(runner[p], id)

\* Caller p is inside JobAssignForRunner without candidates in hand.
Waits(p) == pc[p] \in {"blocked", "retry"}

ExpireToError ==
  [][\A id \in DOMAIN idx :
       JobExpire(id, callbacks) =>
         IF idx[id].State \in {"QUEUED", "WAITING"}
         THEN idx'[id].State = "ERROR" /\ db'[id].State = "ERROR"
         ELSE UNCHANGED <<db, idx, assigned>>]_vars

\* C11 amended: JobExpire moves a QUEUED job to ERROR (Canceled); of a
\* WAITING job it only records CancelTime, the job stays WAITING with its
\* timer and its scope; it changes nothing of a job that is RUNNING, SUCCESS
\* or ERROR.
ExpireCancelsQueued ==
  [][\A id \in DOMAIN idx :
       JobExpire(id, callbacks) =>
         /\ lastErr' = Ok
         /\ assigned' = assigned
         /\ CASE idx[id].State = "QUEUED" ->
                   /\ idx' = [idx EXCEPT ![id].State = "ERROR"]
                   /\ db' = [db EXCEPT ![id].State = "ERROR",
                                       ![id].CancelTime = TRUE,
                                       ![id].Error = "canceled"]
              [] idx[id].State = "WAITING" ->
                   /\ idx' = idx
                   /\ db' = [db EXCEPT ![id].CancelTime = TRUE]
              [] OTHER -> UNCHANGED <<db, idx>>]_vars

\* The only job is WAITING, holds its scope and its timer, and carries a
\* CancelTime.
ExpireCancelsQueuedWitness ==
  /\ DOMAIN idx = {1}
  /\ idx[1].State = "WAITING" /\ db[1].State = "WAITING"
  /\ db[1].CancelTime
  /\ idx[1].StateTimer.kind = "waiting"
  /\ assigned[idx[1].Scope] = 1

\* C12: a nack or a waiting timeout returns a WAITING job to QUEUED with its
\* AssignTime cleared and its scope free, and no timer callback moves a job
\* that is QUEUED out of QUEUED.
RequeuedStaysQueued ==
  [][\A id \in DOMAIN idx :
       /\ (/\ idx[id].State = "WAITING"
           /\ JobAck(id, FALSE, callbacks) \/ WaitingTimeout(id))
          => /\ idx'[id].State = "QUEUED" /\ db'[id].State = "QUEUED"
             /\ ~db'[id].AssignTime
             /\ assigned'[idx[id].Scope] = NoJob
       /\ (idx[id].State = "QUEUED" /\ HeartbeatTimeout(id))
          => idx'[id].State = "QUEUED"]_vars

\* C13: a restart leaves every job in its State, leaves a scope marked
\* assigned exactly when it was marked assigned before, and gives a WAITING
\* job a waiting timer and a RUNNING job a heartbeat timer.
RestartPreserves ==
  [][Restart =>
       /\ DOMAIN idx' = DOMAIN idx
       /\ \A id \in DOMAIN idx :
            /\ idx'[id].State = idx[id].State
            /\ idx[id].State = "WAITING" =>
                 idx'[id].StateTimer = [kind |-> "waiting", armed |-> TRUE]
            /\ idx[id].State = "RUNNING" =>
                 idx'[id].StateTimer = [kind |-> "heartbeat", armed |-> TRUE]
       /\ \A sc \in Scopes :
            (assigned'[sc] # NoJob) <=> (assigned[sc] # NoJob)]_vars

\* C14: JobCancel without force on a job that is WAITING or RUNNING records
\* CancelTime in the persisted job and changes nothing else: State, state
\* timer, scope tracker and waiting callers are as before, so the state
\* checks of JobAck and JobComplete pass as if the job was not cancelled.
GracefulCancelFrame ==
  [][\A id \in DOMAIN idx :
       (Active(id) /\ JobCancel(id, FALSE, callbacks)) =>
         /\ lastErr' = Ok
         /\ db' = [db EXCEPT ![id].CancelTime = TRUE]
         /\ UNCHANGED <<idx, assigned, callbacks, pc, ws>>]_vars

\* The only job carries a CancelTime and was completed with success after
\* it.
GracefulCancelFrameWitness ==
  /\ DOMAIN idx = {1}
  /\ db[1].CancelTime /\ db[1].CompleteTime /\ db[1].AckTime
  /\ idx[1].State = "SUCCESS" /\ db[1].Error = "none"

\* C15: JobCancel on a job that is SUCCESS or ERROR, forced or not, returns
\* no error and changes nothing: State, Error, CancelTime, timers and the
\* scope tracker are as before.
TerminalCancelNoop ==
  [][\A id \in DOMAIN idx, force \in BOOLEAN :
       (idx[id].State \in {"SUCCESS", "ERROR"} /\ JobCancel(id, force, callbacks))
       => /\ lastErr' = Ok
          /\ UNCHANGED <<db, idx, assigned, callbacks, pc, ws>>]_vars

\* Job 1 failed in JobComplete and job 2 was completed with success;
\* neither carries a CancelTime, and the last verb returned no error.
TerminalCancelNoopWitness ==
  /\ DOMAIN idx = {1, 2}
  /\ idx[1].State = "ERROR" /\ db[1].Error = "failed" /\ ~db[1].CancelTime
  /\ idx[2].State = "SUCCESS" /\ ~db[2].CancelTime
  /\ lastErr = Ok

\* C16: JobHeartbeat on an unknown id returns NotFound; on a job that is not
\* RUNNING it returns no error and changes nothing; on a RUNNING job it
\* only resets the heartbeat timer.
HeartbeatFrame ==
  [][\A id \in JobIds :
       JobHeartbeat(id, callbacks) =>
         /\ UNCHANGED <<db, assigned, callbacks, pc, ws>>
         /\ IF id \notin DOMAIN idx
            THEN lastErr' = "NotFound" /\ idx' = idx
            ELSE /\ lastErr' = Ok
                 /\ IF idx[id].State = "RUNNING"
                    THEN idx' = [idx EXCEPT ![id].StateTimer =
                                   [kind |-> "heartbeat", armed |-> TRUE]]
                    ELSE idx' = idx]_vars

\* A RUNNING job whose heartbeat timer fired and was reset: the timer is
\* armed while its callback is pending.
HeartbeatFrameWitness ==
  \E id \in DOMAIN idx :
    /\ idx[id].State = "RUNNING"
    /\ idx[id].StateTimer = [kind |-> "heartbeat", armed |-> TRUE]
    /\ <<"JobCancel", id>> \in callbacks
    /\ ~db[id].CancelTime /\ db[id].AssignTime

\* C17: a JobCreate that succeeds leaves the job persisted and indexed in
\* State QUEUED, whatever State the input carries; a JobCreate that fails
\* (TargetRunner unset or of an unknown variant) leaves neither a persisted
\* record nor an index entry of the id.
CreateAtomic ==
  [][\A id \in JobIds, t \in Targets \cup BadTargets, sc \in Scopes :
       JobCreate(id, t, sc) =>
         IF t \in BadTargets
         THEN /\ lastErr' = "InvalidTarget"
              /\ id \notin DOMAIN db' /\ id \notin DOMAIN idx'
              /\ UNCHANGED <<db, idx, assigned, callbacks, pc, ws>>
         ELSE /\ lastErr' = Ok
              /\ DOMAIN db' = DOMAIN db \cup {id}
              /\ DOMAIN idx' = DOMAIN idx \cup {id}
              /\ db'[id].State = "QUEUED" /\ idx'[id].State = "QUEUED"
              /\ \A k \in DOMAIN idx : db'[k] = db[k] /\ idx'[k] = idx[k]]_vars

\* The create of job 2 failed after the create of job 1 succeeded.
CreateAtomicWitness ==
  /\ lastErr = "InvalidTarget"
  /\ DOMAIN db = {1} /\ DOMAIN idx = {1}
  /\ db[1].State = "QUEUED" /\ idx[1].State = "QUEUED"

\* C18: a job whose StateTimer is armed is in WAITING or RUNNING; no job in
\* QUEUED, SUCCESS or ERROR has a live waiting or heartbeat timer.
TimersOnlyActive ==
  \A id \in DOMAIN idx : idx[id].StateTimer.armed => Active(id)

\* C19: a job in WAITING has exactly one live state timer, its waiting
\* timer, and a job in RUNNING exactly one, its heartbeat timer; no timer
\* installed in an earlier state of the job can still fire for it.
OneLiveTimer ==
  \A id \in DOMAIN idx :
    /\ idx[id].State = "WAITING" =>
         /\ idx[id].StateTimer.kind = "waiting"
         /\ <<"JobCancel", id>> \notin callbacks
    /\ idx[id].State = "RUNNING" => idx[id].StateTimer.kind = "heartbeat"

\* C20: each indexed job has exactly one persisted record, and the two
\* agree on State, also after a verb whose update of the persistent store
\* failed.
StoreAgrees ==
  \A id \in DOMAIN idx : id \in DOMAIN db /\ db[id].State = idx[id].State

\* C21: JobAssignForRunner never leaves an index transaction open: on every
\* return path the write transaction of its commit phase has been committed
\* or aborted, so every later verb can take the write lock.
AssignClosesTxn == ~WriteLocked

\* C22: no operation after the first JobCreate of an id changes the
\* QueueTime of that job, in the index or in the store, and the job stays
\* stored; a JobCreate that carries the stored id is such an operation.
QueueTimeImmutable ==
  [][\A id \in DOMAIN idx :
       /\ id \in DOMAIN idx' /\ id \in DOMAIN db'
       /\ idx'[id].QueueTime = idx[id].QueueTime
       /\ db'[id].QueueTime = db[id].QueueTime]_vars

====
